---- MODULE Spec2Model ----
(***************************************************************************)
(* Model of the payment-authorization core of the Ray-Ban crypto payments  *)
(* backend:                                                                *)
(*   - StreamController (controllers/streamController.js): per-socket      *)
(*     session, the function-call handlers and the stream lifecycle;       *)
(*   - GeminiLiveService (services/geminiLive.js): the adapter's own       *)
(*     per-session registry and state (updateSessionState), and the        *)
(*     handling of tool-call messages in the three versions of the service *)
(*     (handleLiveMessage twice, handleResponse), and the forwarding of    *)
(*     video frames and audio chunks to the Model Peer;                    *)
(*   - POST /api/transaction/execute (controllers/transactionController.js)*)
(*     the payment gate in front of the Locus / crypto executors.          *)
(*                                                                         *)
(* Specifications: Spec (one socket: lifecycle and function calls),        *)
(* SpecOrder (the function calls on a started session, with their history),*)
(* SpecLifecycle (the lifecycle events with their history), SpecLive       *)
(* (tool-call messages and their handlers), SpecVideo, SpecThrottle and   *)
(* SpecAudio (media forwarding), SpecPair (two sessions side by side),     *)
(* SpecGate (payments).                                                    *)
(*                                                                         *)
(* Time is counted in milliseconds.                                        *)
(*                                                                         *)
(* Units: money is counted in thousandths of a dollar (0.01 USD = 10),     *)
(* confidence in hundredths (0.7 = 70).                                    *)
(***************************************************************************)
EXTENDS Integers, Sequences, FiniteSets, TLC

\* ------------------------------------------------------------------ bounds
MaxPending == 1      \* stream:start handlers awaiting the connect at once
MaxConns   == 2      \* connections to the Model Peer opened per session
MaxReady   == 2      \* transaction:ready emissions counted per session
MaxPayCalls == 2     \* payment requests served per session id
MaxApplied == 4      \* function calls followed from a fresh session
MaxLiveCalls == 3    \* function calls received in tool-call messages
MaxTicks   == 3      \* clock ticks followed on a started session
MaxFrames  == 3      \* video frames handed to the Model Peer per session
MaxChunks  == 33     \* audio chunks received per session
MaxPairSteps == 1    \* operations followed on two sessions side by side

\* --------------------------------------------------------- program constants
ConfidenceThreshold   == 70     \* overall_confidence < 0.7
MAX_TRANSACTION_AMOUNT == 100   \* 0.10
MIN_TRANSACTION_AMOUNT == 10    \* 0.01
AudioBufferLength == 32         \* audioBuffer.length >= 32
\* time in milliseconds: Date.now() when the session is started (any value
\* at least an interval away from the initial lastVideoTime of 0) and the
\* step of the clock
StartTime == 1000
Tick      == 500

\* ------------------------------------------------------------- input domains
Sockets     == {"s1", "s2"}
OneSocket   == {"s1"}

NullAmount  == -1               \* amount: null
Undefined   == -2               \* a missing (undefined) numeric argument
\* amounts the Model Peer reports: inside the bounds, the spec's 5.00 (above
\* MAX), and a call without amount
Amounts     == {50, 5000, Undefined}
\* overall_confidence: below the threshold, at it, and a call without
Confidences == {50, 70, Undefined}
\* amounts of a payment request: zero, below MIN, MIN, MAX, just above MAX,
\* the spec's 5.00, and a request without amount
GateAmounts == {0, 5, 10, 100, 101, 5000, Undefined}

Alice == [name |-> <<"A", "l">>, wallet_address |-> "0xAA"]
Bob   == [name |-> <<"B", "o">>, wallet_address |-> "0xBB"]
\* contents of the enrollment store when a connection loads it
EnrolledChoices == {<< >>, <<Alice>>, <<Alice, Bob>>}
\* descriptions the Model Peer may pass; <<"?">> stands for a missing one
NoDescription == <<"?">>
Descriptions == {<<"a", "l">>, <<"x", "B", "O">>, <<"x">>, NoDescription}

\* ------------------------------------------------------------------- state
VARIABLES
    socketState,          \* "none" | "connected" | "disconnected"
    enrolledPeople,       \* session.enrolledPeople
    currentState,         \* session.currentState
    transactionExecuted,  \* session.transactionExecuted
    geminiSession,        \* session.geminiSession !== null
    startPending,         \* stream:start handlers awaiting createSession
    openConns,            \* open Model Peer connections of the session
    liveActive,           \* geminiLive.activeSessions.has(sessionId)
    liveState,            \* geminiLive session.state
    readyCount,           \* transaction:ready events emitted so far
    lastOp,               \* the last operation on the session and its output
    applied,              \* the calls applied to a fresh session, in order
    requested,            \* the function name of the last call received
    service,              \* the GeminiLiveService source that is deployed
    inbound,              \* tool-call messages received, in arrival order
    handlerAt,            \* position of the handler started for each message
    effects,              \* <<message, call>> in the order onFunctionCall ran
    responses,            \* function responses handed to the Model Peer
    clock,                \* Date.now()
    lastVideoTime,        \* geminiLive session.lastVideoTime
    audioBuffer,          \* geminiLive session.audioBuffer
    audioSeen,            \* audio chunks received by sendAudioChunk so far
    forwardedVideo,       \* video frames handed to the Model Peer
    forwardedAudio,       \* audio units handed to the Model Peer
    paymentMethod,        \* PAYMENT_METHOD
    executorCalls,        \* Payment Executor invocations per request sessionId
    requests,             \* payment requests served per request sessionId
    lastResponse          \* the payment gate's last HTTP response

sessionVars == <<socketState, enrolledPeople, currentState,
                 transactionExecuted, geminiSession, startPending, openConns,
                 liveActive, liveState, readyCount, lastOp, applied,
                 requested>>
gateVars    == <<paymentMethod, executorCalls, requests, lastResponse>>
liveVars    == <<service, inbound, handlerAt, effects, responses>>
mediaVars   == <<clock, lastVideoTime, audioBuffer, audioSeen,
                 forwardedVideo, forwardedAudio>>
vars        == <<sessionVars, gateVars, liveVars, mediaVars>>

\* ------------------------------------------------------------ initial values
NoPerson == << >>                 \* personData: null

InitialCurrentState ==
    [personIdentified    |-> FALSE,
     personData          |-> NoPerson,
     verbalAgreement     |-> FALSE,
     amount              |-> NullAmount,
     handshakeActive     |-> FALSE,
     readyForTransaction |-> FALSE]

InitialLiveState ==
    [personIdentified    |-> FALSE,
     verbalAgreement     |-> FALSE,
     handshakeActive     |-> FALSE,
     readyForTransaction |-> FALSE]

NoEvents == << >>

Op(name, outcome, reason, events) ==
    [op |-> name, outcome |-> outcome, reason |-> reason, events |-> events,
     amount |-> NullAmount, handshake_confirmed |-> FALSE,
     overall_confidence |-> Undefined, description |-> NoDescription]

NoOp == Op("none", "none", "", NoEvents)

Event(type, reason, recipient, amount) ==
    [type |-> type, reason |-> reason, recipient |-> recipient,
     amount |-> amount]

Response(status, error, calls, body) ==
    [status |-> status, error |-> error, calls |-> calls, body |-> body]

NoBody == [sessionId |-> "", to_person_id |-> FALSE, to_wallet |-> FALSE,
           amount |-> Undefined]

NoResponse == Response(0, "", 0, NoBody)

\* ---------------------------------------- the three GeminiLiveService sources
\* services/geminiLive.js: handleLiveMessage takes functionCalls[0] only,
\* answers whenever the callback returned something, and a failed send ends
\* the handler in the outer catch; sendVideoFrame skips a frame less than
\* 1000 ms after the last one it let through, sendAudioChunk sends each
\* chunk as it comes
GeminiLiveJs ==
    [source |-> "geminiLive.js", firstCallOnly |-> TRUE,
     needsId |-> FALSE, sendFailureEndsMessage |-> TRUE,
     videoInterval |-> 1000, buffersAudio |-> FALSE]

\* the @google/genai version: handleLiveMessage loops over functionCalls,
\* answers only a call that carries an id, and a failed send is caught per
\* call so that the loop goes on; the video interval is 500 ms and audio
\* chunks are sent as they come
GenAiJs ==
    [source |-> "part_003", firstCallOnly |-> FALSE,
     needsId |-> TRUE, sendFailureEndsMessage |-> FALSE,
     videoInterval |-> 500, buffersAudio |-> FALSE]

\* the chat version: handleResponse loops over functionCalls inside one
\* try block, so a failed send abandons the rest of the message; the video
\* interval is 1000 ms and sendAudioChunk collects chunks in audioBuffer
ChatJs ==
    [source |-> "part_002", firstCallOnly |-> FALSE,
     needsId |-> FALSE, sendFailureEndsMessage |-> TRUE,
     videoInterval |-> 1000, buffersAudio |-> TRUE]

Services == {GeminiLiveJs, GenAiJs, ChatJs}

\* the names handleFunctionCall has a case for
KnownFunctions ==
    {"updateStatus", "identifyPerson", "confirmVerbalAgreement",
     "confirmHandshake", "executeTransaction"}

\* the names the Model Peer may call: the declared ones and one more
FunctionNames == KnownFunctions \union {"unknownFunction"}

\* a function call inside a tool-call message: its name and whether it
\* carries an id; the arguments are drawn when the call is handled
LiveCall(name, hasId) == [name |-> name, hasId |-> hasId]

LiveCalls ==
    {LiveCall("identifyPerson", TRUE),
     LiveCall("confirmHandshake", TRUE),
     LiveCall("confirmVerbalAgreement", FALSE),
     LiveCall("unknownFunction", TRUE)}

\* tool-call messages of 1..n function calls
LiveMessages(n) ==
    UNION {[1..k -> LiveCalls] : k \in 1..n}

InitSessions ==
    /\ socketState = [s \in Sockets |-> "none"]
    /\ enrolledPeople = [s \in Sockets |-> << >>]
    /\ currentState = [s \in Sockets |-> InitialCurrentState]
    /\ transactionExecuted = [s \in Sockets |-> FALSE]
    /\ geminiSession = [s \in Sockets |-> FALSE]
    /\ startPending = [s \in Sockets |-> 0]
    /\ openConns = [s \in Sockets |-> 0]
    /\ liveActive = [s \in Sockets |-> FALSE]
    /\ liveState = [s \in Sockets |-> InitialLiveState]
    /\ readyCount = [s \in Sockets |-> 0]
    /\ lastOp = [s \in Sockets |-> NoOp]
    /\ applied = [s \in Sockets |-> << >>]
    /\ requested = [s \in Sockets |-> ""]
    /\ service = GeminiLiveJs
    /\ inbound = << >>
    /\ handlerAt = << >>
    /\ effects = << >>
    /\ responses = << >>
    /\ clock = StartTime
    /\ lastVideoTime = [s \in Sockets |-> 0]
    /\ audioBuffer = [s \in Sockets |-> << >>]
    /\ audioSeen = [s \in Sockets |-> 0]
    /\ forwardedVideo = [s \in Sockets |-> << >>]
    /\ forwardedAudio = [s \in Sockets |-> << >>]

\* the payment gate under either configured payment method, no session yet
InitGate ==
    /\ InitSessions
    /\ paymentMethod \in {"locus", "crypto"}
    /\ executorCalls = [s \in Sockets |-> 0]
    /\ requests = [s \in Sockets |-> 0]
    /\ lastResponse = NoResponse

\* the stream controller on its own: the payment gate receives no request
Init ==
    /\ InitSessions
    /\ paymentMethod = "locus"
    /\ executorCalls = [s \in Sockets |-> 0]
    /\ requests = [s \in Sockets |-> 0]
    /\ lastResponse = NoResponse

\* ------------------------------------------------------- connection handling
\* a connection that takes over the fired flag of the sessions before it
handleConnection_KeepsFiredFlag(s) ==
    /\ socketState[s] = "none"
    /\ \E people \in EnrolledChoices :
          enrolledPeople' = [enrolledPeople EXCEPT ![s] = people]
    /\ socketState' = [socketState EXCEPT ![s] = "connected"]
    /\ currentState' = [currentState EXCEPT ![s] = InitialCurrentState]
    /\ transactionExecuted' =
          [transactionExecuted EXCEPT ![s] =
              \E t \in Sockets : transactionExecuted[t]]
    /\ geminiSession' = [geminiSession EXCEPT ![s] = FALSE]
    /\ lastOp' = [lastOp EXCEPT ![s] =
                     Op("connection", "created", "", NoEvents)]
    /\ UNCHANGED <<startPending, openConns, liveActive, liveState,
                   readyCount, gateVars, requested,
                   liveVars, mediaVars>>

\* handleConnection: a fresh session object for a new socket
handleConnection(s) ==
    /\ socketState[s] = "none"
    /\ \E people \in EnrolledChoices :
          enrolledPeople' = [enrolledPeople EXCEPT ![s] = people]
    /\ socketState' = [socketState EXCEPT ![s] = "connected"]
    /\ currentState' = [currentState EXCEPT ![s] = InitialCurrentState]
    /\ transactionExecuted' = [transactionExecuted EXCEPT ![s] = FALSE]
    /\ geminiSession' = [geminiSession EXCEPT ![s] = FALSE]
    /\ lastOp' = [lastOp EXCEPT ![s] =
                     Op("connection", "created", "", NoEvents)]
    /\ UNCHANGED <<startPending, openConns, liveActive, liveState,
                   readyCount, gateVars, requested,
                   liveVars, mediaVars>>

\* --------------------------------------------------------- stream lifecycle
\* stream:start, up to the await of geminiLive.createSession: nothing in the
\* handler looks at session.geminiSession or at a start already under way
streamStart(s) ==
    /\ socketState[s] = "connected"
    /\ startPending[s] < MaxPending
    /\ startPending[s] + openConns[s] < MaxConns
    /\ startPending' = [startPending EXCEPT ![s] = @ + 1]
    /\ lastOp' = [lastOp EXCEPT ![s] =
                     Op("stream:start", "pending", "", NoEvents)]
    /\ UNCHANGED <<socketState, enrolledPeople, currentState,
                   transactionExecuted, geminiSession, openConns, liveActive,
                   liveState, readyCount, gateVars, requested,
                   liveVars, mediaVars>>

\* live.connect resolved: createSession registers a fresh adapter session
\* under the session id and stream:start stores it in session.geminiSession
createSessionResolved(s) ==
    /\ startPending[s] > 0
    /\ startPending' = [startPending EXCEPT ![s] = @ - 1]
    /\ openConns' = [openConns EXCEPT ![s] = @ + 1]
    /\ liveActive' = [liveActive EXCEPT ![s] = TRUE]
    /\ liveState' = [liveState EXCEPT ![s] = InitialLiveState]
    /\ geminiSession' = [geminiSession EXCEPT ![s] = TRUE]
    /\ lastOp' = [lastOp EXCEPT ![s] =
                     Op("stream:start", "started", "",
                        <<Event("stream:started", "", NoPerson, NullAmount)>>)]
    /\ lastVideoTime' = [lastVideoTime EXCEPT ![s] = 0]
    /\ audioBuffer' = [audioBuffer EXCEPT ![s] = << >>]
    /\ UNCHANGED <<socketState, enrolledPeople, currentState,
                   transactionExecuted, readyCount, gateVars, requested,
                   liveVars, clock, audioSeen, forwardedVideo,
                   forwardedAudio>>

\* live.connect rejected: createSession rethrows, stream:start reports it
createSessionRejected(s) ==
    /\ startPending[s] > 0
    /\ startPending' = [startPending EXCEPT ![s] = @ - 1]
    /\ lastOp' = [lastOp EXCEPT ![s] =
                     Op("stream:start", "error", "",
                        <<Event("stream:error", "", NoPerson, NullAmount)>>)]
    /\ UNCHANGED <<socketState, enrolledPeople, currentState,
                   transactionExecuted, geminiSession, openConns, liveActive,
                   liveState, readyCount, gateVars, requested,
                   liveVars, mediaVars>>

\* geminiLive.closeSession: closes the registered connection, drops the entry
closeSessionConns(s) ==
    IF liveActive[s] THEN openConns[s] - 1 ELSE openConns[s]

\* stopStream resetting the whole session object, the fired flag included
stopStreamState_ResetsFired(s) ==
    /\ openConns' = [openConns EXCEPT ![s] =
                        IF geminiSession[s] THEN closeSessionConns(s) ELSE @]
    /\ liveActive' = [liveActive EXCEPT ![s] =
                         IF geminiSession[s] THEN FALSE ELSE @]
    /\ geminiSession' = [geminiSession EXCEPT ![s] = FALSE]
    /\ currentState' = [currentState EXCEPT ![s] = InitialCurrentState]
    /\ transactionExecuted' = [transactionExecuted EXCEPT ![s] = FALSE]

\* stopStream closing a connection of the session whenever one is open,
\* whether or not the session still holds its adapter session
stopStreamState_ClosesAnyOpen(s) ==
    /\ openConns' = [openConns EXCEPT ![s] = IF @ > 0 THEN @ - 1 ELSE @]
    /\ liveActive' = [liveActive EXCEPT ![s] = FALSE]
    /\ geminiSession' = [geminiSession EXCEPT ![s] = FALSE]
    /\ currentState' = [currentState EXCEPT ![s] = InitialCurrentState]
    /\ transactionExecuted' = transactionExecuted

\* stopStream tearing the connection down without the reset of currentState
stopStreamState_KeepsState(s) ==
    /\ openConns' = [openConns EXCEPT ![s] =
                        IF geminiSession[s] THEN closeSessionConns(s) ELSE @]
    /\ liveActive' = [liveActive EXCEPT ![s] =
                         IF geminiSession[s] THEN FALSE ELSE @]
    /\ geminiSession' = [geminiSession EXCEPT ![s] = FALSE]
    /\ currentState' = currentState
    /\ transactionExecuted' = transactionExecuted

\* stopStream: close the adapter session if one is held, reset currentState;
\* transactionExecuted is not among the fields it resets
stopStreamState(s) ==
    /\ openConns' = [openConns EXCEPT ![s] =
                        IF geminiSession[s] THEN closeSessionConns(s) ELSE @]
    /\ liveActive' = [liveActive EXCEPT ![s] =
                         IF geminiSession[s] THEN FALSE ELSE @]
    /\ geminiSession' = [geminiSession EXCEPT ![s] = FALSE]
    /\ currentState' = [currentState EXCEPT ![s] = InitialCurrentState]
    /\ transactionExecuted' = transactionExecuted

\* socket.on('stream:stop')
streamStop(s) ==
    /\ socketState[s] = "connected"
    /\ stopStreamState(s)
    /\ lastOp' = [lastOp EXCEPT ![s] =
                     Op("stream:stop", "stopped", "",
                        <<Event("stream:stopped", "", NoPerson, NullAmount)>>)]
    /\ UNCHANGED <<socketState, enrolledPeople, startPending, liveState,
                   readyCount, gateVars, requested,
                   liveVars, mediaVars>>

\* handleDisconnection: stopStream, then the session leaves activeSessions
handleDisconnection(s) ==
    /\ socketState[s] = "connected"
    /\ stopStreamState(s)
    /\ socketState' = [socketState EXCEPT ![s] = "disconnected"]
    /\ lastOp' = [lastOp EXCEPT ![s] =
                     Op("disconnect", "removed", "", NoEvents)]
    /\ UNCHANGED <<enrolledPeople, startPending, liveState, readyCount,
                   gateVars, requested,
                   liveVars, mediaVars>>

\* liveSession.on('close'): a Model Peer connection drops, the adapter
\* deletes the registry entry of the session id
liveSessionClose(s) ==
    /\ openConns[s] > 0
    /\ openConns' = [openConns EXCEPT ![s] = @ - 1]
    /\ liveActive' = [liveActive EXCEPT ![s] = FALSE]
    /\ lastOp' = [lastOp EXCEPT ![s] = Op("live:close", "closed", "", NoEvents)]
    /\ UNCHANGED <<socketState, enrolledPeople, currentState,
                   transactionExecuted, geminiSession, startPending, liveState,
                   readyCount, gateVars, requested,
                   liveVars, mediaVars>>

\* a lifecycle step of which no history is kept
NoHistory == UNCHANGED applied

Lifecycle(s) ==
    \/ handleConnection(s) /\ NoHistory
    \/ streamStart(s) /\ NoHistory
    \/ createSessionResolved(s) /\ NoHistory
    \/ createSessionRejected(s) /\ NoHistory
    \/ streamStop(s) /\ NoHistory
    \/ handleDisconnection(s) /\ NoHistory
    \/ liveSessionClose(s) /\ NoHistory

\* ------------------------------------------------------ person resolution
\* String.prototype.toLowerCase on the letters the descriptions use
toLowerCase(str) ==
    [i \in 1..Len(str) |->
        CASE str[i] = "A" -> "a"
          [] str[i] = "B" -> "b"
          [] str[i] = "L" -> "l"
          [] str[i] = "O" -> "o"
          [] OTHER -> str[i]]

\* String.prototype.includes
includes(str, part) ==
    \E k \in 0..(Len(str) - Len(part)) :
        \A j \in 1..Len(part) : str[k + j] = part[j]

\* findPersonByDescription: the first enrolled person whose lower-cased name
\* occurs in the lower-cased description; without such a person the first
\* enrolled person; null only when nobody is enrolled
findPersonByDescription(people, description) ==
    LET lowerDesc == toLowerCase(description)
        hits == {i \in 1..Len(people) :
                    includes(lowerDesc, toLowerCase(people[i].name))}
    IN  IF hits # {}
        THEN <<people[CHOOSE i \in hits : \A j \in hits : i <= j]>>
        ELSE IF Len(people) > 0 THEN <<people[1]>>
        ELSE NoPerson

\* ------------------------------------------ adapter state (geminiLive.js)
\* updateSessionState: the adapter's own record of the conversation, written
\* from the arguments of the call before the controller's handler runs
updateSessionState(st, name, args) ==
    CASE name = "identifyPerson" ->
            [st EXCEPT !.personIdentified = TRUE]
      [] name = "confirmVerbalAgreement" ->
            [st EXCEPT !.verbalAgreement = args.agreed]
      [] name = "confirmHandshake" ->
            [st EXCEPT !.handshakeActive = args.handshake_active]
      [] name = "executeTransaction" ->
            [st EXCEPT !.readyForTransaction =
                          args.handshake_confirmed /\ st.verbalAgreement]
      [] OTHER -> st

\* handleLiveMessage reaches the handlers only through a registered session
CanReceiveCall(s) == liveActive[s] /\ openConns[s] > 0

\* ------------------------------------- function-call handlers (controller)
\* readiness that fires by itself: transaction:ready as soon as the three
\* conditions hold
checkTransactionReady_Fires(st, executed) ==
    LET ready == st.personIdentified /\ st.verbalAgreement
                 /\ st.handshakeActive
    IN  [state  |-> [st EXCEPT !.readyForTransaction = ready],
         events |-> IF ready /\ ~executed
                    THEN <<Event("transaction:ready", "",
                                 st.personData, st.amount)>>
                    ELSE NoEvents]

\* readiness that latches: once true it stays true
checkTransactionReady_Latched(st, executed) ==
    LET ready == \/ st.readyForTransaction
                 \/ st.personIdentified /\ st.verbalAgreement
                    /\ st.handshakeActive
    IN  [state  |-> [st EXCEPT !.readyForTransaction = ready],
         events |-> IF ready /\ ~executed
                    THEN <<Event("transaction:conditions-met", "",
                                 st.personData, st.amount)>>
                    ELSE NoEvents]

\* readiness announced without looking at transactionExecuted
checkTransactionReady_NoFiredGuard(st, executed) ==
    LET ready == st.personIdentified /\ st.verbalAgreement
                 /\ st.handshakeActive
    IN  [state  |-> [st EXCEPT !.readyForTransaction = ready],
         events |-> IF ready
                    THEN <<Event("transaction:conditions-met", "",
                                 st.personData, st.amount)>>
                    ELSE NoEvents]

\* checkTransactionReady: recompute readiness, announce it while not fired
checkTransactionReady(st, executed) ==
    LET ready == st.personIdentified /\ st.verbalAgreement
                 /\ st.handshakeActive
    IN  [state  |-> [st EXCEPT !.readyForTransaction = ready],
         events |-> IF ready /\ ~executed
                    THEN <<Event("transaction:conditions-met", "",
                                 st.personData, st.amount)>>
                    ELSE NoEvents]

\* a status handler that takes the observation for a lost handshake
handleUpdateStatus_ClearsHandshake(s) ==
    /\ CanReceiveCall(s)
    /\ liveState' = [liveState EXCEPT ![s] =
                        updateSessionState(@, "updateStatus", [x |-> 0])]
    /\ currentState' = [currentState EXCEPT ![s].handshakeActive = FALSE,
                                            ![s].readyForTransaction = FALSE]
    /\ lastOp' = [lastOp EXCEPT ![s] =
                     Op("updateStatus", "acknowledged", "",
                        <<Event("status:update", "", NoPerson, NullAmount)>>)]
    /\ UNCHANGED <<socketState, enrolledPeople,
                   transactionExecuted, geminiSession, startPending, openConns,
                   liveActive, readyCount, gateVars>>

\* handleUpdateStatus
handleUpdateStatus(s) ==
    /\ CanReceiveCall(s)
    /\ liveState' = [liveState EXCEPT ![s] =
                        updateSessionState(@, "updateStatus", [x |-> 0])]
    /\ lastOp' = [lastOp EXCEPT ![s] =
                     Op("updateStatus", "acknowledged", "",
                        <<Event("status:update", "", NoPerson, NullAmount)>>)]
    /\ UNCHANGED <<socketState, enrolledPeople, currentState,
                   transactionExecuted, geminiSession, startPending, openConns,
                   liveActive, readyCount, gateVars>>

\* handleIdentifyPerson; a call without description throws in
\* findPersonByDescription and handleFunctionCall answers {error}
handleIdentifyPerson(s) ==
    /\ CanReceiveCall(s)
    /\ \E description \in Descriptions :
        LET matchedPerson ==
                findPersonByDescription(enrolledPeople[s], description)
        IN
        /\ liveState' = [liveState EXCEPT ![s] =
                            updateSessionState(@, "identifyPerson",
                                               [description |-> description])]
        /\ IF description = NoDescription
           THEN /\ currentState' = currentState
                /\ lastOp' = [lastOp EXCEPT ![s] =
                                 Op("identifyPerson", "error", "", NoEvents)]
           ELSE IF matchedPerson # NoPerson
           THEN /\ currentState' = [currentState EXCEPT ![s] =
                        [@ EXCEPT !.personIdentified = TRUE,
                                  !.personData = matchedPerson]]
                /\ lastOp' = [lastOp EXCEPT ![s] =
                        [Op("identifyPerson", "identified", "",
                            <<Event("person:identified", "", matchedPerson,
                                    NullAmount)>>)
                         EXCEPT !.description = description]]
           ELSE /\ currentState' = [currentState EXCEPT ![s] =
                        [@ EXCEPT !.personIdentified = FALSE,
                                  !.personData = NoPerson]]
                /\ lastOp' = [lastOp EXCEPT ![s] =
                        [Op("identifyPerson", "unknown", "",
                            <<Event("person:unknown", "", NoPerson,
                                    NullAmount)>>)
                         EXCEPT !.description = description]]
    /\ UNCHANGED <<socketState, enrolledPeople, transactionExecuted,
                   geminiSession, startPending, openConns, liveActive,
                   readyCount, gateVars>>

\* handleConfirmVerbalAgreement
handleConfirmVerbalAgreement(s) ==
    /\ CanReceiveCall(s)
    /\ \E agreed \in BOOLEAN, amount \in Amounts :
        LET st1 == [currentState[s] EXCEPT !.verbalAgreement = agreed,
                                           !.amount = amount]
            chk == checkTransactionReady(st1, transactionExecuted[s])
        IN
        /\ liveState' = [liveState EXCEPT ![s] =
                            updateSessionState(@, "confirmVerbalAgreement",
                                [agreed |-> agreed, amount |-> amount])]
        /\ currentState' = [currentState EXCEPT ![s] = chk.state]
        /\ lastOp' = [lastOp EXCEPT ![s] =
                [Op("confirmVerbalAgreement", "acknowledged", "",
                    <<Event("verbal:confirmed", "", NoPerson, amount)>>
                    \o chk.events)
                 EXCEPT !.amount = amount]]
    /\ UNCHANGED <<socketState, enrolledPeople, transactionExecuted,
                   geminiSession, startPending, openConns, liveActive,
                   readyCount, gateVars>>

\* handleConfirmHandshake
handleConfirmHandshake(s) ==
    /\ CanReceiveCall(s)
    /\ \E handshake_active \in BOOLEAN :
        LET st1 == [currentState[s] EXCEPT
                        !.handshakeActive = handshake_active]
            chk == checkTransactionReady(st1, transactionExecuted[s])
        IN
        /\ liveState' = [liveState EXCEPT ![s] =
                            updateSessionState(@, "confirmHandshake",
                                [handshake_active |-> handshake_active])]
        /\ currentState' = [currentState EXCEPT ![s] = chk.state]
        /\ lastOp' = [lastOp EXCEPT ![s] =
                Op("confirmHandshake", "acknowledged", "",
                   <<Event("handshake:confirmed", "", NoPerson, NullAmount)>>
                   \o chk.events)]
    /\ UNCHANGED <<socketState, enrolledPeople, transactionExecuted,
                   geminiSession, startPending, openConns, liveActive,
                   readyCount, gateVars>>

\* a < b as JavaScript evaluates it on a number or undefined
jsLess(a, b) == a # Undefined /\ b # Undefined /\ a < b

\* the fourth check left out: a fired session is not recognised
alreadyExecuted_Never(executed) == FALSE

\* the fourth check of handleExecuteTransaction
alreadyExecuted(executed) == executed

\* the fifth check left out: any confidence passes
confidenceTooLow_Never(overall_confidence) == FALSE

\* the fifth check of handleExecuteTransaction
confidenceTooLow(overall_confidence) ==
    jsLess(overall_confidence, ConfidenceThreshold)

\* the validation chain with the handshake taken from the caller's
\* handshake-independent view: the third check is missing
blockedReason_NoHandshakeCheck(st, executed, overall_confidence) ==
    IF ~st.personIdentified THEN "Person not identified"
    ELSE IF ~st.verbalAgreement THEN "No verbal agreement"
    ELSE IF alreadyExecuted(executed) THEN "Transaction already executed"
    ELSE IF confidenceTooLow(overall_confidence) THEN "Confidence too low"
    ELSE ""

\* the validation chain reading the stored readyForTransaction in place of
\* the three conditions
blockedReason_UsesReadyFlag(st, executed, overall_confidence) ==
    IF ~st.readyForTransaction THEN "Person not identified"
    ELSE IF alreadyExecuted(executed) THEN "Transaction already executed"
    ELSE IF confidenceTooLow(overall_confidence) THEN "Confidence too low"
    ELSE ""

\* the validation chain with the fired flag looked at before the conditions
blockedReason_ExecutedFirst(st, executed, overall_confidence) ==
    IF alreadyExecuted(executed) THEN "Transaction already executed"
    ELSE IF ~st.personIdentified THEN "Person not identified"
    ELSE IF ~st.verbalAgreement THEN "No verbal agreement"
    ELSE IF ~st.handshakeActive THEN "No active handshake"
    ELSE IF confidenceTooLow(overall_confidence) THEN "Confidence too low"
    ELSE ""

\* the validation chain of handleExecuteTransaction: the reason of the
\* first failing check, "" when every check passes.  The amount and the
\* handshake_confirmed argument take no part in it.
blockedReason(st, executed, overall_confidence) ==
    IF ~st.personIdentified THEN "Person not identified"
    ELSE IF ~st.verbalAgreement THEN "No verbal agreement"
    ELSE IF ~st.handshakeActive THEN "No active handshake"
    ELSE IF alreadyExecuted(executed) THEN "Transaction already executed"
    ELSE IF confidenceTooLow(overall_confidence) THEN "Confidence too low"
    ELSE ""

\* handleExecuteTransaction with a rejection that marks the session as fired
handleExecuteTransaction_RejectionFires(s) ==
    /\ CanReceiveCall(s)
    /\ readyCount[s] < MaxReady
    /\ \E amount \in Amounts, handshake_confirmed \in BOOLEAN,
          overall_confidence \in Confidences :
        LET reason == blockedReason(currentState[s], transactionExecuted[s],
                                    overall_confidence)
            args == [amount |-> amount,
                     handshake_confirmed |-> handshake_confirmed,
                     overall_confidence |-> overall_confidence]
        IN
        /\ liveState' = [liveState EXCEPT ![s] =
                            updateSessionState(@, "executeTransaction", args)]
        /\ transactionExecuted' = [transactionExecuted EXCEPT ![s] = TRUE]
        /\ IF reason # ""
           THEN /\ UNCHANGED <<currentState, readyCount>>
                /\ lastOp' = [lastOp EXCEPT ![s] =
                        [Op("executeTransaction", "rejected", reason,
                            <<Event("transaction:blocked", reason, NoPerson,
                                    NullAmount)>>)
                         EXCEPT !.amount = amount,
                                !.handshake_confirmed = handshake_confirmed,
                                !.overall_confidence = overall_confidence]]
           ELSE /\ currentState' = [currentState EXCEPT ![s] =
                        [@ EXCEPT !.readyForTransaction = TRUE]]
                /\ readyCount' = [readyCount EXCEPT ![s] = @ + 1]
                /\ lastOp' = [lastOp EXCEPT ![s] =
                        [Op("executeTransaction", "accepted", "",
                            <<Event("transaction:ready", "",
                                    currentState[s].personData, amount)>>)
                         EXCEPT !.amount = amount,
                                !.handshake_confirmed = handshake_confirmed,
                                !.overall_confidence = overall_confidence]]
    /\ UNCHANGED <<socketState, enrolledPeople, geminiSession, startPending,
                   openConns, liveActive, gateVars>>

\* an accepted call that looks the recipient up anew and takes the first
\* enrolled person
handleExecuteTransaction_PaysFirstEnrolled(s) ==
    /\ CanReceiveCall(s)
    /\ readyCount[s] < MaxReady
    /\ \E amount \in Amounts, handshake_confirmed \in BOOLEAN,
          overall_confidence \in Confidences :
        LET reason == blockedReason(currentState[s], transactionExecuted[s],
                                    overall_confidence)
            args == [amount |-> amount,
                     handshake_confirmed |-> handshake_confirmed,
                     overall_confidence |-> overall_confidence]
        IN
        /\ liveState' = [liveState EXCEPT ![s] =
                            updateSessionState(@, "executeTransaction", args)]
        /\ IF reason # ""
           THEN /\ UNCHANGED <<currentState, transactionExecuted, readyCount>>
                /\ lastOp' = [lastOp EXCEPT ![s] =
                        [Op("executeTransaction", "rejected", reason,
                            <<Event("transaction:blocked", reason, NoPerson,
                                    NullAmount)>>)
                         EXCEPT !.amount = amount,
                                !.handshake_confirmed = handshake_confirmed,
                                !.overall_confidence = overall_confidence]]
           ELSE /\ currentState' = [currentState EXCEPT ![s] =
                        [@ EXCEPT !.readyForTransaction = TRUE]]
                /\ transactionExecuted' =
                        [transactionExecuted EXCEPT ![s] = TRUE]
                /\ readyCount' = [readyCount EXCEPT ![s] = @ + 1]
                /\ lastOp' = [lastOp EXCEPT ![s] =
                        [Op("executeTransaction", "accepted", "",
                            <<Event("transaction:ready", "",
                                    <<enrolledPeople[s][1]>>, amount)>>)
                         EXCEPT !.amount = amount,
                                !.handshake_confirmed = handshake_confirmed,
                                !.overall_confidence = overall_confidence]]
    /\ UNCHANGED <<socketState, enrolledPeople, geminiSession, startPending,
                   openConns, liveActive, gateVars>>

\* handleExecuteTransaction
handleExecuteTransaction(s) ==
    /\ CanReceiveCall(s)
    /\ readyCount[s] < MaxReady
    /\ \E amount \in Amounts, handshake_confirmed \in BOOLEAN,
          overall_confidence \in Confidences :
        LET reason == blockedReason(currentState[s], transactionExecuted[s],
                                    overall_confidence)
            args == [amount |-> amount,
                     handshake_confirmed |-> handshake_confirmed,
                     overall_confidence |-> overall_confidence]
        IN
        /\ liveState' = [liveState EXCEPT ![s] =
                            updateSessionState(@, "executeTransaction", args)]
        /\ IF reason # ""
           THEN /\ UNCHANGED <<currentState, transactionExecuted, readyCount>>
                /\ lastOp' = [lastOp EXCEPT ![s] =
                        [Op("executeTransaction", "rejected", reason,
                            <<Event("transaction:blocked", reason, NoPerson,
                                    NullAmount)>>)
                         EXCEPT !.amount = amount,
                                !.handshake_confirmed = handshake_confirmed,
                                !.overall_confidence = overall_confidence]]
           ELSE /\ currentState' = [currentState EXCEPT ![s] =
                        [@ EXCEPT !.readyForTransaction = TRUE]]
                /\ transactionExecuted' =
                        [transactionExecuted EXCEPT ![s] = TRUE]
                /\ readyCount' = [readyCount EXCEPT ![s] = @ + 1]
                /\ lastOp' = [lastOp EXCEPT ![s] =
                        [Op("executeTransaction", "accepted", "",
                            <<Event("transaction:ready", "",
                                    currentState[s].personData, amount)>>)
                         EXCEPT !.amount = amount,
                                !.handshake_confirmed = handshake_confirmed,
                                !.overall_confidence = overall_confidence]]
    /\ UNCHANGED <<socketState, enrolledPeople, geminiSession, startPending,
                   openConns, liveActive, gateVars>>

\* the default branch of handleFunctionCall: a name without a case is
\* logged and answered {error: 'Unknown function'}; updateSessionState has
\* no case for it either
handleFunctionCallDefault(s) ==
    /\ CanReceiveCall(s)
    /\ liveState' = [liveState EXCEPT ![s] =
                        updateSessionState(@, "unknownFunction", [x |-> 0])]
    /\ lastOp' = [lastOp EXCEPT ![s] =
                     Op("unknownFunction", "error", "Unknown function",
                        NoEvents)]
    /\ UNCHANGED <<socketState, enrolledPeople, currentState,
                   transactionExecuted, geminiSession, startPending, openConns,
                   liveActive, readyCount, gateVars>>

\* the switch with its default branch falling into the status handler
handleFunctionCall_DefaultIsStatus(s, name) ==
    \/ name = "identifyPerson" /\ handleIdentifyPerson(s)
    \/ name = "confirmVerbalAgreement" /\ handleConfirmVerbalAgreement(s)
    \/ name = "confirmHandshake" /\ handleConfirmHandshake(s)
    \/ name = "executeTransaction" /\ handleExecuteTransaction(s)
    \/ /\ name \notin KnownFunctions \ {"updateStatus"}
       /\ handleUpdateStatus(s)

\* handleFunctionCall: the switch on the function name
handleFunctionCall(s, name) ==
    \/ name = "updateStatus" /\ handleUpdateStatus(s)
    \/ name = "identifyPerson" /\ handleIdentifyPerson(s)
    \/ name = "confirmVerbalAgreement" /\ handleConfirmVerbalAgreement(s)
    \/ name = "confirmHandshake" /\ handleConfirmHandshake(s)
    \/ name = "executeTransaction" /\ handleExecuteTransaction(s)
    \/ name \notin KnownFunctions /\ handleFunctionCallDefault(s)

\* a function call handled with nothing else of the service in progress
DirectCall == UNCHANGED <<applied, requested, liveVars, mediaVars>>

FunctionCall(s) ==
    \/ handleUpdateStatus(s) /\ DirectCall
    \/ handleIdentifyPerson(s) /\ DirectCall
    \/ handleConfirmVerbalAgreement(s) /\ DirectCall
    \/ handleConfirmHandshake(s) /\ DirectCall
    \/ handleExecuteTransaction(s) /\ DirectCall
    \/ handleFunctionCallDefault(s) /\ DirectCall

\* ------------------------------- payment gate (transactionController.js)
\* !amount
jsFalsyAmount(amount) == amount = Undefined \/ amount = 0

\* the ceiling check left out
exceedsMaximum_Never(amount) == FALSE

\* amount > MAX_TRANSACTION_AMOUNT
exceedsMaximum(amount) == jsLess(MAX_TRANSACTION_AMOUNT, amount)

\* amount < MIN_TRANSACTION_AMOUNT
belowMinimum(amount) == jsLess(amount, MIN_TRANSACTION_AMOUNT)

\* the checks of POST /execute in front of the payment dispatch, in the
\* order of the code: the error of the first failing one, "" when all pass
validationError(body) ==
    IF jsFalsyAmount(body.amount) THEN "amount is required"
    ELSE IF ~body.to_wallet /\ ~body.to_person_id
         THEN "Either to_wallet or to_person_id is required"
    ELSE IF exceedsMaximum(body.amount) THEN "exceeds maximum allowed amount"
    ELSE IF belowMinimum(body.amount) THEN "is below minimum allowed amount"
    ELSE IF ~body.to_wallet THEN "Recipient wallet address is required"
    ELSE ""

\* the payment dispatch of POST /execute: the Payment Executor invocations it
\* makes and the HTTP status it ends in, given how each executor answers.
\* A failed Locus payment is followed by a crypto transfer for the same
\* request; only a failure of the last executor tried reaches the catch.
paymentDispatch(method, locusOk, cryptoOk) ==
    IF method = "locus"
    THEN IF locusOk
         THEN [calls |-> <<"locus">>, status |-> 201, error |-> ""]
         ELSE IF cryptoOk
         THEN [calls |-> <<"locus", "crypto">>, status |-> 201, error |-> ""]
         ELSE [calls |-> <<"locus", "crypto">>, status |-> 500,
               error |-> "Failed to execute transaction"]
    ELSE IF cryptoOk
         THEN [calls |-> <<"crypto">>, status |-> 201, error |-> ""]
         ELSE [calls |-> <<"crypto">>, status |-> 500,
               error |-> "Failed to execute transaction"]

\* router.post('/execute'): nothing in the handler consults the stream
\* controller's sessions or remembers the session ids it has served
postExecute(sid) ==
    /\ requests[sid] < MaxPayCalls
    /\ \E amount \in GateAmounts, to_wallet \in BOOLEAN,
          to_person_id \in BOOLEAN, locusOk \in BOOLEAN, cryptoOk \in BOOLEAN :
        LET body == [sessionId |-> sid, to_person_id |-> to_person_id,
                     to_wallet |-> to_wallet, amount |-> amount]
            error == validationError(body)
            paid == paymentDispatch(paymentMethod, locusOk, cryptoOk)
        IN
        IF error # ""
        THEN /\ lastResponse' = Response(400, error, 0, body)
             /\ executorCalls' = executorCalls
        ELSE /\ lastResponse' =
                    Response(paid.status, paid.error, Len(paid.calls), body)
             /\ executorCalls' =
                    [executorCalls EXCEPT ![sid] = @ + Len(paid.calls)]
    /\ requests' = [requests EXCEPT ![sid] = @ + 1]
    /\ UNCHANGED <<paymentMethod, sessionVars>>

NextGate ==
    /\ \E sid \in Sockets : postExecute(sid)
    /\ UNCHANGED <<liveVars, mediaVars>>

\* the payment gate on its own, no session connected
SpecGate == InitGate /\ [][NextGate]_vars

Next == \E s \in OneSocket : Lifecycle(s) \/ FunctionCall(s)

Spec == Init /\ [][Next]_vars

\* --------------------------------------- call sequences on a fresh session
\* a connected session whose stream:start has just completed, with the
\* given content of the enrollment store
StartedSessions(people) ==
    /\ socketState = [s \in Sockets |->
                         IF s \in OneSocket THEN "connected" ELSE "none"]
    /\ enrolledPeople = [s \in Sockets |->
                            IF s \in OneSocket THEN people ELSE << >>]
    /\ currentState = [s \in Sockets |-> InitialCurrentState]
    /\ transactionExecuted = [s \in Sockets |-> FALSE]
    /\ geminiSession = [s \in Sockets |-> s \in OneSocket]
    /\ startPending = [s \in Sockets |-> 0]
    /\ openConns = [s \in Sockets |-> IF s \in OneSocket THEN 1 ELSE 0]
    /\ liveActive = [s \in Sockets |-> s \in OneSocket]
    /\ liveState = [s \in Sockets |-> InitialLiveState]
    /\ readyCount = [s \in Sockets |-> 0]
    /\ lastOp = [s \in Sockets |->
                    IF s \in OneSocket
                    THEN Op("stream:start", "started", "",
                            <<Event("stream:started", "", NoPerson,
                                    NullAmount)>>)
                    ELSE NoOp]
    /\ applied = [s \in Sockets |-> << >>]
    /\ requested = [s \in Sockets |-> ""]
    /\ paymentMethod = "locus"
    /\ executorCalls = [s \in Sockets |-> 0]
    /\ requests = [s \in Sockets |-> 0]
    /\ lastResponse = NoResponse
    /\ inbound = << >>
    /\ handlerAt = << >>
    /\ effects = << >>
    /\ responses = << >>
    /\ clock = StartTime
    /\ lastVideoTime = [s \in Sockets |-> 0]
    /\ audioBuffer = [s \in Sockets |-> << >>]
    /\ audioSeen = [s \in Sockets |-> 0]
    /\ forwardedVideo = [s \in Sockets |-> << >>]
    /\ forwardedAudio = [s \in Sockets |-> << >>]

InitOrder ==
    /\ \E people \in EnrolledChoices : StartedSessions(people)
    /\ service = GeminiLiveJs

\* what a completed call adds to the history: its name when it set its
\* condition (a person resolved, agreed = true, handshake_active = true) or
\* asked for the transaction, and what it did otherwise
AppliedEntry(op, st) ==
    CASE op.op = "identifyPerson" /\ op.outcome = "identified" ->
            <<"identifyPerson">>
      [] op.op = "confirmVerbalAgreement" /\ st.verbalAgreement ->
            <<"confirmVerbalAgreement">>
      [] op.op = "confirmHandshake" /\ st.handshakeActive ->
            <<"confirmHandshake">>
      [] op.op = "executeTransaction" -> <<"executeTransaction">>
      [] op.op = "confirmVerbalAgreement" -> <<"verbalRetracted">>
      [] op.op = "confirmHandshake" -> <<"handshakeLost">>
      [] op.op = "identifyPerson" -> <<"personUnresolved">>
      [] OTHER -> << >>

NextOrder ==
    \E s \in OneSocket, name \in FunctionNames :
        /\ Len(applied[s]) < MaxApplied
        /\ handleFunctionCall(s, name)
        /\ requested' = [requested EXCEPT ![s] = name]
        /\ applied' = [applied EXCEPT ![s] =
                           @ \o AppliedEntry(lastOp'[s], currentState'[s])]
        /\ UNCHANGED <<liveVars, mediaVars>>

\* the function calls of the Model Peer on a session just started
SpecOrder == InitOrder /\ [][NextOrder]_vars

\* ------------------------------------------------ media forwarding (adapter)
\* a video frame handed to the Model Peer: when, and by which method
Frame(at, by) == [at |-> at, by |-> by]

\* a throttle timestamp kept by the service for all its sessions
sendVideoFrame_SharedThrottle(s) ==
    IF ~liveActive[s]
    THEN UNCHANGED <<lastVideoTime, forwardedVideo>>
    ELSE IF clock - lastVideoTime[s] < service.videoInterval
    THEN UNCHANGED <<lastVideoTime, forwardedVideo>>
    ELSE /\ lastVideoTime' = [t \in Sockets |-> clock]
         /\ forwardedVideo' = [forwardedVideo EXCEPT ![s] =
                                  Append(@, Frame(clock, "sendVideoFrame"))]

\* a throttle that takes note of the time of every frame, dropped or not
sendVideoFrame_DropRestarts(s) ==
    IF ~liveActive[s]
    THEN UNCHANGED <<lastVideoTime, forwardedVideo>>
    ELSE IF clock - lastVideoTime[s] < service.videoInterval
    THEN /\ lastVideoTime' = [lastVideoTime EXCEPT ![s] = clock]
         /\ forwardedVideo' = forwardedVideo
    ELSE /\ lastVideoTime' = [lastVideoTime EXCEPT ![s] = clock]
         /\ forwardedVideo' = [forwardedVideo EXCEPT ![s] =
                                  Append(@, Frame(clock, "sendVideoFrame"))]

\* sendVideoFrame: throws without a registered session; skips the frame when
\* less than the interval has passed since lastVideoTime; otherwise notes
\* the time and hands the frame to the connection
sendVideoFrame(s) ==
    IF ~liveActive[s]
    THEN UNCHANGED <<lastVideoTime, forwardedVideo>>
    ELSE IF clock - lastVideoTime[s] < service.videoInterval
    THEN UNCHANGED <<lastVideoTime, forwardedVideo>>
    ELSE /\ lastVideoTime' = [lastVideoTime EXCEPT ![s] = clock]
         /\ forwardedVideo' = [forwardedVideo EXCEPT ![s] =
                                  Append(@, Frame(clock, "sendVideoFrame"))]

\* socket.on('stream:video'): nothing without session.geminiSession; an
\* error of sendVideoFrame is logged
streamVideo(s) ==
    /\ socketState[s] = "connected"
    /\ Len(forwardedVideo[s]) < MaxFrames
    /\ IF geminiSession[s]
       THEN sendVideoFrame(s)
       ELSE UNCHANGED <<lastVideoTime, forwardedVideo>>
    /\ UNCHANGED <<sessionVars, gateVars, liveVars, clock, audioBuffer,
                   audioSeen, forwardedAudio>>

\* sendAudioChunk: throws without a registered session.  The chat version
\* pushes the chunk to audioBuffer and, at 32 chunks, empties the buffer and
\* sends the chunks joined; the other two send the chunk at once.
sendAudioChunk(s) ==
    LET chunk == audioSeen[s] + 1
        buffer == Append(audioBuffer[s], chunk)
    IN
    IF ~liveActive[s]
    THEN UNCHANGED <<audioBuffer, audioSeen, forwardedAudio>>
    ELSE /\ audioSeen' = [audioSeen EXCEPT ![s] = chunk]
         /\ IF ~service.buffersAudio
            THEN /\ forwardedAudio' = [forwardedAudio EXCEPT ![s] =
                                          Append(@, <<chunk>>)]
                 /\ audioBuffer' = audioBuffer
            ELSE IF Len(buffer) >= AudioBufferLength
            THEN /\ forwardedAudio' = [forwardedAudio EXCEPT ![s] =
                                          Append(@, buffer)]
                 /\ audioBuffer' = [audioBuffer EXCEPT ![s] = << >>]
            ELSE /\ forwardedAudio' = forwardedAudio
                 /\ audioBuffer' = [audioBuffer EXCEPT ![s] = buffer]

\* socket.on('stream:audio')
streamAudio(s) ==
    /\ socketState[s] = "connected"
    /\ audioSeen[s] < MaxChunks
    /\ IF geminiSession[s]
       THEN sendAudioChunk(s)
       ELSE UNCHANGED <<audioBuffer, audioSeen, forwardedAudio>>
    /\ UNCHANGED <<sessionVars, gateVars, liveVars, clock, lastVideoTime,
                   forwardedVideo>>

\* sendMultimodalChunk: throws without a registered session; the parts that
\* are present are handed to the connection in one message, whatever
\* lastVideoTime and audioBuffer hold
sendMultimodalChunk(s, video, audio) ==
    IF ~liveActive[s]
    THEN UNCHANGED <<audioSeen, forwardedVideo, forwardedAudio>>
    ELSE /\ forwardedVideo' =
                IF video
                THEN [forwardedVideo EXCEPT ![s] =
                         Append(@, Frame(clock, "sendMultimodalChunk"))]
                ELSE forwardedVideo
         /\ audioSeen' =
                IF audio THEN [audioSeen EXCEPT ![s] = @ + 1] ELSE audioSeen
         /\ forwardedAudio' =
                IF audio
                THEN [forwardedAudio EXCEPT ![s] =
                         Append(@, <<audioSeen[s] + 1>>)]
                ELSE forwardedAudio

\* socket.on('stream:multimodal')
streamMultimodal(s) ==
    /\ socketState[s] = "connected"
    /\ Len(forwardedVideo[s]) < MaxFrames
    /\ Len(forwardedAudio[s]) < MaxFrames
    /\ \E video \in BOOLEAN, audio \in BOOLEAN :
          IF geminiSession[s]
          THEN sendMultimodalChunk(s, video, audio)
          ELSE UNCHANGED <<audioSeen, forwardedVideo, forwardedAudio>>
    /\ UNCHANGED <<sessionVars, gateVars, liveVars, clock, lastVideoTime,
                   audioBuffer>>

\* time passes
tick ==
    /\ clock < StartTime + Tick * MaxTicks
    /\ clock' = clock + Tick
    /\ UNCHANGED <<sessionVars, gateVars, liveVars, lastVideoTime,
                   audioBuffer, audioSeen, forwardedVideo, forwardedAudio>>

InitMedia ==
    /\ StartedSessions(<<Alice>>)
    /\ service \in Services

\* the lifecycle events that can follow a completed stream:start
Restarts(s) ==
    \/ streamStart(s) /\ NoHistory
    \/ createSessionResolved(s) /\ NoHistory
    \/ createSessionRejected(s) /\ NoHistory
    \/ streamStop(s) /\ NoHistory
    \/ handleDisconnection(s) /\ NoHistory
    \/ liveSessionClose(s) /\ NoHistory

NextVideo ==
    \/ tick
    \/ \E s \in OneSocket :
          streamVideo(s) \/ streamMultimodal(s) \/ Restarts(s)

\* video frames and lifecycle events on a started session as time passes,
\* under each of the three sources of the service
SpecVideo == InitMedia /\ [][NextVideo]_vars

NextThrottle ==
    \/ tick
    \/ \E s \in OneSocket : streamVideo(s) \/ Restarts(s)

\* the frames of stream:video alone, with the lifecycle events, as time
\* passes
SpecThrottle == InitMedia /\ [][NextThrottle]_vars

NextAudio ==
    \E s \in OneSocket :
        streamAudio(s) \/ Restarts(s)

\* audio chunks and lifecycle events on a started session, under each of
\* the three sources of the service
SpecAudio == InitMedia /\ [][NextAudio]_vars

\* ------------------------------------------- the lifecycle with its history
\* what a lifecycle step adds to the history: the operation and the number
\* of Model Peer connections it closed, for a completed start, a stop, a
\* disconnect and a connection drop; nothing for the others
LifecycleEntry(s) ==
    IF \/ lastOp'[s].op \in {"stream:stop", "disconnect", "live:close"}
       \/ lastOp'[s].op = "stream:start" /\ lastOp'[s].outcome = "started"
    THEN <<[op |-> lastOp'[s].op, closed |-> openConns[s] - openConns'[s]]>>
    ELSE << >>

\* a lifecycle step of which the history is kept, while there is room
Recorded(s) ==
    /\ Len(applied[s]) < MaxApplied
    /\ applied' = [applied EXCEPT ![s] = @ \o LifecycleEntry(s)]

RecordedLifecycle(s) ==
    \/ handleConnection(s) /\ Recorded(s)
    \/ streamStart(s) /\ Recorded(s)
    \/ createSessionResolved(s) /\ Recorded(s)
    \/ createSessionRejected(s) /\ Recorded(s)
    \/ streamStop(s) /\ Recorded(s)
    \/ handleDisconnection(s) /\ Recorded(s)
    \/ liveSessionClose(s) /\ Recorded(s)

NextLifecycle == \E s \in OneSocket : RecordedLifecycle(s)

\* the lifecycle events of one socket, each start, stop and drop recorded
SpecLifecycle == Init /\ [][NextLifecycle]_vars

\* ------------------------------------------------ two sessions side by side
\* handleConnection draws a fresh uuid for every socket and keeps the session
\* under socket.id; createSession keeps the adapter session under that uuid.
\* Every handler works on the session object of its own closure.
\*
\* where a session stands when the two are looked at together: no connection
\* yet, connected with a stream:start awaiting the Model Peer, started with
\* the three conditions confirmed for Alice, or gone: disconnected after an
\* accepted executeTransaction(handshake_confirmed = true)
PairSituations == {"none", "starting", "armed", "gone"}

ArmedCheck ==
    checkTransactionReady(
        [personIdentified    |-> TRUE,
         personData          |-> <<Alice>>,
         verbalAgreement     |-> TRUE,
         amount              |-> 50,
         handshakeActive     |-> TRUE,
         readyForTransaction |-> FALSE], FALSE)

ArmedLiveState ==
    [personIdentified    |-> TRUE,
     verbalAgreement     |-> TRUE,
     handshakeActive     |-> TRUE,
     readyForTransaction |-> FALSE]

InitPair ==
    \E sit \in [Sockets -> PairSituations] :
        /\ socketState = [s \in Sockets |->
                             CASE sit[s] = "none" -> "none"
                               [] sit[s] = "gone" -> "disconnected"
                               [] OTHER -> "connected"]
        /\ enrolledPeople = [s \in Sockets |->
                                IF sit[s] = "none" THEN << >>
                                ELSE <<Alice, Bob>>]
        /\ currentState = [s \in Sockets |->
                              IF sit[s] = "armed" THEN ArmedCheck.state
                              ELSE InitialCurrentState]
        /\ transactionExecuted = [s \in Sockets |-> sit[s] = "gone"]
        /\ geminiSession = [s \in Sockets |-> sit[s] = "armed"]
        /\ startPending = [s \in Sockets |->
                              IF sit[s] = "starting" THEN 1 ELSE 0]
        /\ openConns = [s \in Sockets |-> IF sit[s] = "armed" THEN 1 ELSE 0]
        /\ liveActive = [s \in Sockets |-> sit[s] = "armed"]
        /\ liveState = [s \in Sockets |->
                           CASE sit[s] = "armed" -> ArmedLiveState
                             [] sit[s] = "gone" ->
                                   [ArmedLiveState EXCEPT
                                       !.readyForTransaction = TRUE]
                             [] OTHER -> InitialLiveState]
        /\ readyCount = [s \in Sockets |-> IF sit[s] = "gone" THEN 1 ELSE 0]
        /\ lastOp = [s \in Sockets |->
                CASE sit[s] = "none" -> NoOp
                  [] sit[s] = "starting" ->
                        Op("stream:start", "pending", "", NoEvents)
                  [] sit[s] = "gone" ->
                        Op("disconnect", "removed", "", NoEvents)
                  [] OTHER ->
                        Op("confirmHandshake", "acknowledged", "",
                           <<Event("handshake:confirmed", "", NoPerson,
                                   NullAmount)>> \o ArmedCheck.events)]
        /\ applied = [s \in Sockets |-> << >>]
        /\ requested = [s \in Sockets |->
                           CASE sit[s] = "armed" -> "confirmHandshake"
                             [] sit[s] = "gone" -> "executeTransaction"
                             [] OTHER -> ""]
        /\ service = GeminiLiveJs
        /\ inbound = << >>
        /\ handlerAt = << >>
        /\ effects = << >>
        /\ responses = << >>
        /\ clock = StartTime
        /\ lastVideoTime = [s \in Sockets |-> 0]
        /\ audioBuffer = [s \in Sockets |-> << >>]
        /\ audioSeen = [s \in Sockets |-> 0]
        /\ forwardedVideo = [s \in Sockets |-> << >>]
        /\ forwardedAudio = [s \in Sockets |-> << >>]
        /\ paymentMethod = "locus"
        /\ executorCalls = [s \in Sockets |-> 0]
        /\ requests = [s \in Sockets |-> 0]
        /\ lastResponse = NoResponse

\* operations followed so far on the two sessions together
PairSteps == Len(applied["s1"]) + Len(applied["s2"])

\* an operation of session s, noted in the history of s while there is room
Noted(s, what) ==
    /\ PairSteps < MaxPairSteps
    /\ applied' = [applied EXCEPT ![s] = Append(@, what)]

PairCall(s) ==
    \E name \in FunctionNames :
        /\ handleFunctionCall(s, name)
        /\ requested' = [requested EXCEPT ![s] = name]
        /\ Noted(s, name)
        /\ UNCHANGED <<liveVars, mediaVars>>

PairLifecycle(s) ==
    \/ handleConnection(s) /\ Noted(s, "connection")
    \/ streamStart(s) /\ Noted(s, "stream:start")
    \/ createSessionResolved(s) /\ Noted(s, "started")
    \/ createSessionRejected(s) /\ Noted(s, "stream:error")
    \/ streamStop(s) /\ Noted(s, "stream:stop")
    \/ handleDisconnection(s) /\ Noted(s, "disconnect")
    \/ liveSessionClose(s) /\ Noted(s, "live:close")

\* a media handler of a session that has forwarded nothing yet
FirstMedia(s) ==
    /\ PairSteps < MaxPairSteps
    /\ forwardedVideo[s] = << >>
    /\ forwardedAudio[s] = << >>

PairMedia(s) ==
    \/ streamVideo(s) /\ FirstMedia(s)
    \/ streamAudio(s) /\ FirstMedia(s)
    \/ streamMultimodal(s) /\ FirstMedia(s)

NextPair ==
    \E s \in Sockets : PairCall(s) \/ PairLifecycle(s) \/ PairMedia(s)

\* two sessions of the same process, either of them acting at every step
SpecPair == InitPair /\ [][NextPair]_vars

\* ------------------------------------------ tool-call messages (the adapter)
\* function calls received so far
RECURSIVE Received(_)
Received(messages) ==
    IF messages = << >> THEN 0
    ELSE Len(Head(messages)) + Received(Tail(messages))

\* handlers that are executing, not suspended at an await
RunningHandlers ==
    {m \in 1..Len(handlerAt) : handlerAt[m].at = "call"}

\* handlers suspended in the await of the send of a function response
SendingHandlers ==
    {m \in 1..Len(handlerAt) : handlerAt[m].at = "send"}

\* the function calls of a message that its handler goes through
handledCalls(message) ==
    IF service.firstCallOnly THEN SubSeq(message, 1, 1) ELSE message

\* if (functionResponse [&& functionCall.id]): handleFunctionCall returns an
\* object on every path, so only the id decides
sendsResponse(call) == ~service.needsId \/ call.hasId

\* where the handler of message m is once it is through with its call i
Advance(m) ==
    IF handlerAt[m].i < Len(handledCalls(inbound[m]))
    THEN [i |-> handlerAt[m].i + 1, at |-> "call"]
    ELSE [i |-> handlerAt[m].i, at |-> "done"]

FunctionResponse(m, i, delivered) ==
    [message |-> m, call |-> i, delivered |-> delivered]

\* the 'message' callback: a tool-call message arrives and its handler
\* starts, whatever earlier handlers are still waiting for
liveMessage(s) ==
    /\ CanReceiveCall(s)
    /\ RunningHandlers = {}
    /\ Received(inbound) < MaxLiveCalls
    /\ \E message \in LiveMessages(MaxLiveCalls - Received(inbound)) :
          inbound' = Append(inbound, message)
    /\ handlerAt' = Append(handlerAt, [i |-> 1, at |-> "call"])
    /\ UNCHANGED <<sessionVars, gateVars, service, effects, responses,
                   mediaVars>>

\* the handler takes its next function call: updateSessionState, then
\* await session.onFunctionCall(name, args), then the decision to answer
callFunction(s) ==
    \E m \in RunningHandlers :
        LET call == inbound[m][handlerAt[m].i] IN
        /\ handleFunctionCall(s, call.name)
        /\ effects' = Append(effects, <<m, handlerAt[m].i>>)
        /\ handlerAt' = [handlerAt EXCEPT ![m] =
                            IF sendsResponse(call)
                            THEN [i |-> handlerAt[m].i, at |-> "send"]
                            ELSE Advance(m)]
        /\ UNCHANGED <<applied, requested, service, inbound, responses,
                       mediaVars>>

\* the awaited send of a function response resolves
sendResolved(s) ==
    /\ RunningHandlers = {}
    /\ \E m \in SendingHandlers :
        /\ responses' = Append(responses,
                               FunctionResponse(m, handlerAt[m].i, TRUE))
        /\ handlerAt' = [handlerAt EXCEPT ![m] = Advance(m)]
    /\ UNCHANGED <<sessionVars, gateVars, service, inbound, effects,
                   mediaVars>>

\* the awaited send rejects: the catch around it logs the error
sendRejected(s) ==
    /\ RunningHandlers = {}
    /\ \E m \in SendingHandlers :
        /\ responses' = Append(responses,
                               FunctionResponse(m, handlerAt[m].i, FALSE))
        /\ handlerAt' = [handlerAt EXCEPT ![m] =
                            IF service.sendFailureEndsMessage
                            THEN [i |-> handlerAt[m].i, at |-> "done"]
                            ELSE Advance(m)]
    /\ UNCHANGED <<sessionVars, gateVars, service, inbound, effects,
                   mediaVars>>

InitLive ==
    /\ StartedSessions(<<Alice>>)
    /\ service \in Services

NextLive ==
    \E s \in OneSocket :
        \/ liveMessage(s)
        \/ callFunction(s)
        \/ sendResolved(s)
        \/ sendRejected(s)

\* the tool-call messages of the Model Peer on a session just started,
\* under each of the three sources of the service
SpecLive == InitLive /\ [][NextLive]_vars


\* =====================================================================
\* Properties of the session state machine (Spec)
\* =====================================================================
AllThree(st) ==
    st.personIdentified /\ st.verbalAgreement /\ st.handshakeActive

IsExec(op) == op.op = "executeTransaction"

ReadyEvents(op) ==
    {i \in 1..Len(op.events) : op.events[i].type = "transaction:ready"}

\* a step in which handleExecuteTransaction has run on session s: every
\* handler records itself in lastOp, so lastOp'[s] names the handler of any
\* step that changed something of the session
ExecStep(s) ==
    /\ IsExec(lastOp'[s])
    /\ <<lastOp[s], liveState[s], readyCount[s]>>
           # <<lastOp'[s], liveState'[s], readyCount'[s]>>

BlockedEvents(op) ==
    {i \in 1..Len(op.events) : op.events[i].type = "transaction:blocked"}

\* C1: over a session's lifetime executeTransaction is accepted at most
\* once: at most one transaction:ready is ever emitted, and it is emitted
\* exactly when transactionExecuted has been set.
C1_AtMostOnceFiring ==
    \A s \in Sockets :
        /\ readyCount[s] <= 1
        /\ transactionExecuted[s] <=> readyCount[s] = 1

\* a fired session on which a further executeTransaction has been tried
C1_Witness ==
    /\ readyCount["s1"] = 1
    /\ IsExec(lastOp["s1"])
    /\ lastOp["s1"].outcome = "rejected"
    /\ AllThree(currentState["s1"])

\* C2: an executeTransaction step is accepted only from a state whose own
\* personIdentified, verbalAgreement and handshakeActive are all true; from
\* a state with person and verbal true and handshake false it is rejected
\* with the reason "No active handshake".
C2_AcceptedOnlyWithAllThree ==
    [][\A s \in Sockets :
          ExecStep(s) =>
              /\ lastOp'[s].outcome = "accepted" => AllThree(currentState[s])
              /\ readyCount'[s] # readyCount[s] => AllThree(currentState[s])
              /\ ( /\ currentState[s].personIdentified
                   /\ currentState[s].verbalAgreement
                   /\ ~currentState[s].handshakeActive )
                 => /\ lastOp'[s].outcome = "rejected"
                    /\ lastOp'[s].reason = "No active handshake"
                    /\ readyCount'[s] = readyCount[s]
                    /\ transactionExecuted'[s] = transactionExecuted[s]
      ]_vars

\* the request arrived after the handshake was lost and was turned down
C2_Witness ==
    /\ IsExec(lastOp["s1"])
    /\ lastOp["s1"].reason = "No active handshake"
    /\ currentState["s1"].personIdentified
    /\ currentState["s1"].verbalAgreement
    /\ ~currentState["s1"].handshakeActive

\* C3: after an executeTransaction call that restates handshake_confirmed =
\* true while the session's own handshakeActive is false, the call is
\* rejected and nothing of the session says ready or fired: neither the
\* controller's readyForTransaction and transactionExecuted nor the
\* adapter's readyForTransaction.
C3_NoTrustInRestatedFlags ==
    \A s \in Sockets :
        ( /\ IsExec(lastOp[s])
          /\ lastOp[s].handshake_confirmed
          /\ ~currentState[s].handshakeActive )
        => /\ lastOp[s].outcome = "rejected"
           /\ ReadyEvents(lastOp[s]) = {}
           /\ ~currentState[s].readyForTransaction
           /\ ~liveState[s].readyForTransaction

\* C4: an executeTransaction call whose amount is below MIN or above MAX is
\* rejected and reported as blocked; it emits no transaction:ready.
C4_AmountBoundsInStateMachine ==
    \A s \in Sockets :
        ( /\ IsExec(lastOp[s])
          /\ lastOp[s].amount # Undefined
          /\ \/ lastOp[s].amount < MIN_TRANSACTION_AMOUNT
             \/ lastOp[s].amount > MAX_TRANSACTION_AMOUNT )
        => /\ lastOp[s].outcome = "rejected"
           /\ BlockedEvents(lastOp[s]) # {}
           /\ ReadyEvents(lastOp[s]) = {}

\* C8: on an unfired session with all three conditions true, an
\* executeTransaction with overall_confidence below the threshold is rejected
\* with the reason "Confidence too low" and transactionExecuted stays false,
\* so that the same state still accepts a request with enough confidence.
C8_LowConfidenceBlocked ==
    [][\A s \in Sockets :
          ( /\ ExecStep(s)
            /\ AllThree(currentState[s])
            /\ ~transactionExecuted[s]
            /\ lastOp'[s].overall_confidence # Undefined
            /\ lastOp'[s].overall_confidence < ConfidenceThreshold )
          => /\ lastOp'[s].outcome = "rejected"
             /\ lastOp'[s].reason = "Confidence too low"
             /\ ReadyEvents(lastOp'[s]) = {}
             /\ ~transactionExecuted'[s]
             /\ currentState'[s] = currentState[s]
             /\ blockedReason(currentState'[s], transactionExecuted'[s],
                              ConfidenceThreshold) = ""
      ]_vars

\* the low-confidence request has been turned down on an armed session
C8_Witness ==
    /\ IsExec(lastOp["s1"])
    /\ lastOp["s1"].reason = "Confidence too low"
    /\ lastOp["s1"].overall_confidence = 50
    /\ ~transactionExecuted["s1"]
    /\ AllThree(currentState["s1"])

\* C9: on a fired session an executeTransaction that passes every other
\* check (all three conditions, confidence at or above the threshold) is
\* rejected with the reason "Transaction already executed"; on an unfired
\* session the same call is accepted, so of two such calls back to back
\* the first is accepted and the second rejected.
C9_DuplicateRejected ==
    [][\A s \in Sockets :
          ( /\ ExecStep(s)
            /\ AllThree(currentState[s])
            /\ lastOp'[s].overall_confidence >= ConfidenceThreshold )
          => IF transactionExecuted[s]
             THEN /\ lastOp'[s].outcome = "rejected"
                  /\ lastOp'[s].reason = "Transaction already executed"
                  /\ readyCount'[s] = readyCount[s]
             ELSE /\ lastOp'[s].outcome = "accepted"
                  /\ transactionExecuted'[s]
      ]_vars

\* the second of two valid requests has been turned down
C9_Witness ==
    /\ IsExec(lastOp["s1"])
    /\ lastOp["s1"].reason = "Transaction already executed"
    /\ lastOp["s1"].overall_confidence >= ConfidenceThreshold
    /\ AllThree(currentState["s1"])
    /\ readyCount["s1"] = 1

\* C10: transactionExecuted never goes from true to false, whatever the
\* step: a function call, stream:stop, a disconnect or a later stream:start.
C10_FiredIsMonotonic ==
    [][\A s \in Sockets : transactionExecuted[s] => transactionExecuted'[s]]_vars

\* a fired session that was stopped (its state reset) and started again
C10_Witness ==
    /\ transactionExecuted["s1"]
    /\ currentState["s1"] = InitialCurrentState
    /\ lastOp["s1"].op = "stream:start"
    /\ lastOp["s1"].outcome = "started"

\* =====================================================================
\* Properties of the payment gate (SpecGate)
\* =====================================================================
OutOfBounds(amount) ==
    /\ amount # Undefined
    /\ amount > MAX_TRANSACTION_AMOUNT \/ amount < MIN_TRANSACTION_AMOUNT

NamesBound(response) ==
    \/ /\ response.body.amount > MAX_TRANSACTION_AMOUNT
       /\ response.error = "exceeds maximum allowed amount"
    \/ /\ response.body.amount < MIN_TRANSACTION_AMOUNT
       /\ response.error = "is below minimum allowed amount"

\* C5 (as claimed): a request whose amount is above MAX or below MIN makes
\* no Payment Executor invocation and is answered with an error naming the
\* bound.
C5_BoundsErrorNamesBound ==
    OutOfBounds(lastResponse.body.amount)
    => /\ lastResponse.calls = 0
       /\ lastResponse.status = 400
       /\ NamesBound(lastResponse)

\* C5 (amended): a request whose amount is above MAX or below MIN makes no
\* Payment Executor invocation and is answered with status 400; the error
\* names the bound when the amount is not zero and the request carries
\* to_wallet or to_person_id.
C5_BoundsNeverReachExecutor ==
    OutOfBounds(lastResponse.body.amount)
    => /\ lastResponse.calls = 0
       /\ lastResponse.status = 400
       /\ ( /\ lastResponse.body.amount # 0
            /\ lastResponse.body.to_wallet \/ lastResponse.body.to_person_id )
          => NamesBound(lastResponse)

\* the spec's 5.00 has been refused for the ceiling
C5_Witness ==
    /\ lastResponse.body.amount = 5000
    /\ lastResponse.body.to_wallet
    /\ lastResponse.status = 400
    /\ lastResponse.error = "exceeds maximum allowed amount"
    /\ executorCalls[lastResponse.body.sessionId] = 0

\* C6: per session id the gate invokes the Payment Executor at most once,
\* and only for a session that has emitted transaction:ready.
C6_ExecutorOncePerReadySession ==
    \A s \in Sockets :
        /\ executorCalls[s] <= 1
        /\ executorCalls[s] > 0 => readyCount[s] > 0

\* C7: a request that passes validation makes exactly one Payment Executor
\* invocation, and when that invocation fails the request ends in an error
\* response.
C7_ExactlyOneInvocation ==
    (lastResponse.status # 0 /\ validationError(lastResponse.body) = "")
    => /\ lastResponse.calls = 1
       /\ lastResponse.status \in {201, 500}

\* =====================================================================
\* Properties of readiness and its notification (Spec)
\* =====================================================================
ConditionsMet(op) ==
    {i \in 1..Len(op.events) : op.events[i].type = "transaction:conditions-met"}

StateAffecting ==
    {"identifyPerson", "confirmVerbalAgreement", "confirmHandshake"}

\* C11: transaction:ready is emitted, and transactionExecuted is set, only
\* by an accepted executeTransaction step; a step of identifyPerson,
\* confirmVerbalAgreement or confirmHandshake, even one that makes all three
\* conditions true, emits no transaction:ready and leaves
\* transactionExecuted and the count of firings as they were.
C11_FiredOnlyByExecute ==
    [][\A s \in Sockets :
          /\ ( \/ readyCount'[s] # readyCount[s]
               \/ (transactionExecuted'[s] /\ ~transactionExecuted[s]) )
             => (ExecStep(s) /\ lastOp'[s].outcome = "accepted")
          /\ ReadyEvents(lastOp'[s]) # {}
             => (IsExec(lastOp'[s]) /\ lastOp'[s].outcome = "accepted")
          /\ lastOp'[s].op \in StateAffecting
             => /\ transactionExecuted'[s] = transactionExecuted[s]
                /\ readyCount'[s] = readyCount[s]
      ]_vars

\* the three conditions have just become true through a confirmation and
\* the session has announced it, without firing
C11_Witness ==
    /\ lastOp["s1"].op \in StateAffecting
    /\ AllThree(currentState["s1"])
    /\ ConditionsMet(lastOp["s1"]) # {}
    /\ ~transactionExecuted["s1"]
    /\ readyCount["s1"] = 0

\* C12: when identifyPerson, confirmVerbalAgreement or confirmHandshake has
\* completed, the readyForTransaction that stream:getState returns equals
\* personIdentified /\ verbalAgreement /\ handshakeActive, whichever of the
\* three calls came last.
C12_ReadinessRecomputedAfterEveryCall ==
    \A s \in Sockets :
        lastOp[s].op \in StateAffecting
        => ( currentState[s].readyForTransaction
             <=> AllThree(currentState[s]) )

\* the history holds exactly one identifyPerson that resolved a person, one
\* confirmVerbalAgreement(agreed = true) and one
\* confirmHandshake(handshake_active = true), in any of the six orders
IsOrdering(history) ==
    /\ Len(history) = 3
    /\ {history[i] : i \in 1..3} = StateAffecting

\* C13: after one successful identifyPerson, one
\* confirmVerbalAgreement(agreed = true) and one
\* confirmHandshake(handshake_active = true) have been applied to a fresh
\* session, in any of the six orders, personIdentified, verbalAgreement and
\* handshakeActive are all true, and an executeTransaction that follows
\* with overall_confidence at or above the threshold is accepted.
C13_OrderIndependentReadiness ==
    [][\A s \in Sockets :
          /\ IsOrdering(applied'[s]) => AllThree(currentState'[s])
          /\ ( /\ IsOrdering(applied[s])
               /\ applied'[s] = Append(applied[s], "executeTransaction")
               /\ lastOp'[s].overall_confidence >= ConfidenceThreshold )
             => /\ lastOp'[s].outcome = "accepted"
                /\ ReadyEvents(lastOp'[s]) # {}
                /\ transactionExecuted'[s]
      ]_vars

\* identification arrived last of the three and the request was accepted
C13_Witness ==
    /\ applied["s1"] = <<"confirmHandshake", "confirmVerbalAgreement",
                         "identifyPerson", "executeTransaction">>
    /\ lastOp["s1"].outcome = "accepted"
    /\ transactionExecuted["s1"]

\* the history ends with confirmVerbalAgreement(agreed = true) followed by
\* confirmVerbalAgreement(agreed = false)
EndsRetracted(history) ==
    /\ Len(history) >= 2
    /\ history[Len(history) - 1] = "confirmVerbalAgreement"
    /\ history[Len(history)] = "verbalRetracted"

C15_NotifiedOncePerReadyInterval ==
    [][\A s \in Sockets :
          ( /\ ConditionsMet(lastOp[s]) # {}
            /\ AllThree(currentState[s])
            /\ AllThree(currentState'[s])
            /\ applied'[s] # applied[s] )
          => ConditionsMet(lastOp'[s]) = {}
      ]_vars

\* C16: on a session whose transactionExecuted is true no call emits
\* transaction:conditions-met, whatever verbal or handshake confirmation
\* follows the firing.
C16_NoNotificationAfterFiring ==
    \A s \in Sockets :
        transactionExecuted[s] => ConditionsMet(lastOp[s]) = {}

\* the handshake was confirmed again on a fired session whose three
\* conditions hold, and nothing was announced
C16_Witness ==
    /\ transactionExecuted["s1"]
    /\ lastOp["s1"].op = "confirmHandshake"
    /\ AllThree(currentState["s1"])
    /\ currentState["s1"].readyForTransaction
    /\ ConditionsMet(lastOp["s1"]) = {}

\* the call recorded in op lacks a required argument: identifyPerson its
\* description, confirmVerbalAgreement its amount, executeTransaction its
\* amount or its overall_confidence
MissingArgument(op) ==
    \/ op.op = "identifyPerson" /\ op.outcome = "error"
    \/ op.op = "confirmVerbalAgreement" /\ op.amount = Undefined
    \/ /\ op.op = "executeTransaction"
       /\ op.amount = Undefined \/ op.overall_confidence = Undefined

\* C19: a function call that lacks a required argument is answered with an
\* error or a rejection, emits nothing but possibly transaction:blocked,
\* and leaves currentState and transactionExecuted as they were.
C19_MissingArgumentChangesNothing ==
    [][\A s \in Sockets :
          (applied'[s] # applied[s] /\ MissingArgument(lastOp'[s]))
          => /\ lastOp'[s].outcome \in {"error", "rejected"}
             /\ currentState'[s] = currentState[s]
             /\ transactionExecuted'[s] = transactionExecuted[s]
             /\ readyCount'[s] = readyCount[s]
      ]_vars

\* C20: every function call runs the one handler that its name selects,
\* and a call with a name that has no handler is answered with an error
\* and nothing else: currentState, transactionExecuted and the adapter's
\* state stay as they were, no event is emitted, and the session keeps its
\* socket and its Model Peer connection.
C20_DispatchByName ==
    [][\A s \in Sockets :
          requested'[s] # ""
          => /\ lastOp'[s].op = requested'[s]
             /\ requested'[s] \notin KnownFunctions
                => /\ lastOp'[s].outcome = "error"
                   /\ lastOp'[s].events = NoEvents
                   /\ currentState'[s] = currentState[s]
                   /\ transactionExecuted'[s] = transactionExecuted[s]
                   /\ readyCount'[s] = readyCount[s]
                   /\ liveState'[s] = liveState[s]
                   /\ socketState'[s] = socketState[s]
                   /\ geminiSession'[s] = geminiSession[s]
                   /\ liveActive'[s] = liveActive[s]
                   /\ openConns'[s] = openConns[s]
      ]_vars

\* a call with an unknown name reached a session whose three conditions
\* hold and that has not fired: it was answered with the error, and the
\* session is as alive and as ready as before
C20_Witness ==
    /\ requested["s1"] = "unknownFunction"
    /\ lastOp["s1"].op = "unknownFunction"
    /\ lastOp["s1"].reason = "Unknown function"
    /\ AllThree(currentState["s1"])
    /\ ~transactionExecuted["s1"]
    /\ CanReceiveCall("s1")

\* =====================================================================
\* Properties of the tool-call messages (SpecLive)
\* =====================================================================
\* the responses delivered to the Model Peer for call i of message m
DeliveredFor(m, i) ==
    {k \in 1..Len(responses) :
        /\ responses[k].message = m
        /\ responses[k].call = i
        /\ responses[k].delivered}

\* no send of the handler of message m was rejected by the connection
NoFailedSend(m) ==
    \A k \in 1..Len(responses) :
        responses[k].message = m => responses[k].delivered

\* C17: when the handler of a tool-call message has finished and none of
\* its sends was rejected by the connection, every function call of the
\* message has received exactly one response: also the second call of a
\* message, a call with an unknown name and a call whose handler failed.
C17_EveryCallAnsweredOnce ==
    \A m \in 1..Len(inbound) :
        (handlerAt[m].at = "done" /\ NoFailedSend(m))
        => \A i \in 1..Len(inbound[m]) : Cardinality(DeliveredFor(m, i)) = 1

\* C18: the function calls take effect in the order of their arrival: by
\* message, and inside a message by position.
C18_EffectsInArrivalOrder ==
    \A j, k \in 1..Len(effects) :
        j < k => \/ effects[j][1] < effects[k][1]
                 \/ /\ effects[j][1] = effects[k][1]
                    /\ effects[j][2] < effects[k][2]

\* =====================================================================
\* Person resolution (SpecOrder)
\* =====================================================================
\* the reference of an identifyPerson call resolves against the snapshot:
\* the name of some enrolled person occurs in the description
Resolves(people, description) ==
    \E i \in 1..Len(people) :
        includes(toLowerCase(description), toLowerCase(people[i].name))

\* the last call was an identifyPerson whose description names nobody of
\* the session's enrolled snapshot
UnresolvedCall(s) ==
    /\ lastOp[s].op = "identifyPerson"
    /\ lastOp[s].description # NoDescription
    /\ ~Resolves(enrolledPeople[s], lastOp[s].description)

PersonEvents(op, type) ==
    {i \in 1..Len(op.events) : op.events[i].type = type}

\* C21: an identifyPerson call whose reference does not resolve against the
\* session's enrolled snapshot is a non-identification: person:unknown is
\* emitted, person:identified is not, and the call does not report a person
\* as identified.
C21_UnresolvedIsUnknown ==
    \A s \in OneSocket :
        UnresolvedCall(s) =>
            /\ lastOp[s].outcome = "unknown"
            /\ PersonEvents(lastOp[s], "person:unknown") # {}
            /\ PersonEvents(lastOp[s], "person:identified") = {}

\* C22: an unresolved identifyPerson call leaves the authorization state as
\* it was: a person identified earlier stays identified with the same
\* person data, and the verbal, handshake, amount and readiness values are
\* untouched.
C22_UnresolvedChangesNothing ==
    [][\A s \in OneSocket :
          (applied'[s] # applied[s] /\ UnresolvedCall(s)') =>
              currentState'[s] = currentState[s]]_vars

\* =====================================================================
\* Stream lifecycle (Spec)
\* =====================================================================
\* C23: a stream:start on a session that is already started (it holds its
\* adapter session and a connection to the Model Peer is open) never opens
\* a second connection for that session.
C23_NoSecondConnection ==
    [][\A s \in Sockets :
          (geminiSession[s] /\ openConns[s] >= 1) =>
              openConns'[s] <= openConns[s]]_vars

\* C24: once the client of a session has disconnected, no connection to the
\* Model Peer remains open for that session, whatever was in progress when
\* the disconnect arrived (a stream:start still awaiting its connection
\* included).
C24_NoConnectionAfterDisconnect ==
    \A s \in Sockets :
        socketState[s] = "disconnected" => openConns[s] = 0

\* =====================================================================
\* Stream lifecycle with its history (SpecLifecycle)
\* =====================================================================
LastEntry(history) == history[Len(history)]

\* a step in which stream:stop is handled right after a stream:stop
SecondStop(s) ==
    /\ applied'[s] # applied[s]
    /\ applied[s] # << >>
    /\ LastEntry(applied[s]).op = "stream:stop"
    /\ lastOp[s].op = "stream:stop"
    /\ LastEntry(applied'[s]).op = "stream:stop"

\* C25: a stop handled right after a stop of the same session closes no
\* connection and changes nothing of the session: whatever the first stop
\* closed is closed once.
C25_SecondStopChangesNothing ==
    [][\A s \in OneSocket :
          SecondStop(s) =>
              /\ LastEntry(applied'[s]).closed = 0
              /\ UNCHANGED <<socketState, enrolledPeople, currentState,
                             transactionExecuted, geminiSession, startPending,
                             openConns, liveActive, liveState, readyCount,
                             lastOp>>]_vars

\* two stops in a row, the first of which closed the session's connection
C25_Witness ==
    \E s \in OneSocket :
        \E i \in 1..(Len(applied[s]) - 1) :
            /\ applied[s][i] = [op |-> "stream:stop", closed |-> 1]
            /\ applied[s][i + 1].op = "stream:stop"
            /\ lastOp[s].op = "stream:stop"
            /\ i + 1 = Len(applied[s])

\* =====================================================================
\* Connection drops (Spec)
\* =====================================================================
\* the connection of the session has dropped: the adapter has removed the
\* session from its registry while the controller still holds its handle
Dropped(s) == geminiSession[s] /\ ~liveActive[s]

\* C26: after a drop of the Model Peer connection nothing of the partial
\* authorization state is trusted: a stream:start that completes on the
\* dropped session begins with no condition confirmed, so that what was
\* confirmed before the drop cannot count towards a later executeTransaction.
C26_NoResumeFromPartialState ==
    [][\A s \in OneSocket :
          (Dropped(s) /\ liveActive'[s]) =>
              currentState'[s] = InitialCurrentState]_vars

\* =====================================================================
\* Reset by stream:stop (Spec)
\* =====================================================================
\* the condition flags that are set after a step and were not before it
Raised(s) ==
    {f \in {"personIdentified", "verbalAgreement", "handshakeActive"} :
        currentState'[s][f] /\ ~currentState[s][f]}

\* the call that confirms each condition
ConfirmedBy(f) ==
    CASE f = "personIdentified" -> "identifyPerson"
      [] f = "verbalAgreement"  -> "confirmVerbalAgreement"
      [] f = "handshakeActive"  -> "confirmHandshake"

\* C27: stream:stop leaves the session registered with personIdentified,
\* verbalAgreement, handshakeActive and readyForTransaction false and person
\* data and amount cleared; from there on a condition is set again only by
\* its own confirmation call and executeTransaction is accepted only with
\* the three of them set, so it is rejected until all three are confirmed
\* again.
C27_StopResetsConditions ==
    [][\A s \in OneSocket :
          /\ lastOp'[s].op = "stream:stop" =>
                /\ currentState'[s] = InitialCurrentState
                /\ socketState'[s] = "connected"
          /\ \A f \in Raised(s) : lastOp'[s].op = ConfirmedBy(f)
          /\ (ExecStep(s) /\ lastOp'[s].outcome = "accepted") =>
                AllThree(currentState[s])]_vars

\* an executeTransaction rejected for a missing person on a session that
\* had fired before: the conditions it fired on were cleared by a stop
C27_Witness ==
    \E s \in OneSocket :
        /\ transactionExecuted[s]
        /\ socketState[s] = "connected"
        /\ IsExec(lastOp[s])
        /\ lastOp[s].outcome = "rejected"
        /\ lastOp[s].reason = "Person not identified"

\* =====================================================================
\* Media forwarding (SpecVideo, SpecAudio)
\* =====================================================================
\* C28: any two video frames handed to the Model Peer for one session are
\* at least the throttle interval of the service apart: a frame that comes
\* sooner after the last forwarded one is dropped.
C28_ForwardedFramesApart ==
    \A s \in OneSocket :
        \A i, j \in 1..Len(forwardedVideo[s]) :
            i < j =>
                forwardedVideo[s][j].at - forwardedVideo[s][i].at
                    >= service.videoInterval

\* the chunks of a unit are consecutive chunks of the session, in the order
\* in which they arrived
InArrivalOrder(unit) ==
    \A k \in 1..(Len(unit) - 1) : unit[k + 1] = unit[k] + 1

\* C29: audio chunks are not handed to the Model Peer one by one: every
\* unit handed over holds the chunks accumulated up to the threshold, in
\* arrival order, and nothing of a unit handed over stays in the buffer.
C29_AudioForwardedInUnits ==
    \A s \in OneSocket :
        \A u \in 1..Len(forwardedAudio[s]) :
            LET unit == forwardedAudio[s][u] IN
            /\ Len(unit) = AudioBufferLength
            /\ InArrivalOrder(unit)
            /\ \A k \in 1..Len(audioBuffer[s]) :
                  audioBuffer[s][k] > unit[Len(unit)]

\* =====================================================================
\* Order of the rejection reasons (Spec)
\* =====================================================================
\* the fixed order of the checks and the reason each one reports
ReasonInOrder ==
    <<"Person not identified", "No verbal agreement", "No active handshake",
      "Transaction already executed", "Confidence too low">>

\* the checks, by their place in the order, that fail for a call with the
\* given confidence on a session in the given state
FailingChecks(st, executed, overall_confidence) ==
    {k \in 1..Len(ReasonInOrder) :
        \/ k = 1 /\ ~st.personIdentified
        \/ k = 2 /\ ~st.verbalAgreement
        \/ k = 3 /\ ~st.handshakeActive
        \/ k = 4 /\ executed
        \/ k = 5 /\ overall_confidence # Undefined
                 /\ overall_confidence < ConfidenceThreshold}

\* C30: an executeTransaction call for which at least one check fails is
\* rejected with the reason of the first failing check in the order person
\* not identified, no verbal agreement, no active handshake, already
\* executed, confidence too low, however many of them fail at once.
C30_FirstFailingCheckReported ==
    [][\A s \in OneSocket :
          ExecStep(s) =>
              LET failing == FailingChecks(currentState[s],
                                 transactionExecuted[s],
                                 lastOp'[s].overall_confidence)
              IN  failing # {} =>
                      /\ lastOp'[s].outcome = "rejected"
                      /\ \E k \in failing :
                            /\ \A j \in failing : k <= j
                            /\ lastOp'[s].reason = ReasonInOrder[k]
                            /\ \A e \in BlockedEvents(lastOp'[s]) :
                                  lastOp'[s].events[e].reason
                                      = ReasonInOrder[k]]_vars

\* a call rejected while a missing verbal agreement, a fired session and a
\* low confidence come together: the verbal agreement is the one reported
C30_Witness ==
    \E s \in OneSocket :
        /\ IsExec(lastOp[s])
        /\ lastOp[s].outcome = "rejected"
        /\ FailingChecks(currentState[s], transactionExecuted[s],
                         lastOp[s].overall_confidence) = {2, 4, 5}
        /\ lastOp[s].reason = "No verbal agreement"

\* =====================================================================
\* Frame of the function calls (SpecOrder)
\* =====================================================================
\* a step in which the named function has been handled on session s
CallStep(s, name) ==
    /\ requested'[s] = name
    /\ lastOp'[s].op = name
    /\ <<lastOp[s], liveState[s], applied[s], requested[s]>>
           # <<lastOp'[s], liveState'[s], applied'[s], requested'[s]>>

\* C31: a rejected executeTransaction emits exactly one transaction:blocked
\* event, which carries a reason, emits no transaction:ready, and leaves the
\* authorization state and transactionExecuted as they were.
C31_RejectionChangesNothing ==
    [][\A s \in OneSocket :
          (CallStep(s, "executeTransaction")
              /\ lastOp'[s].outcome = "rejected") =>
              /\ Cardinality(BlockedEvents(lastOp'[s])) = 1
              /\ \A e \in BlockedEvents(lastOp'[s]) :
                    lastOp'[s].events[e].reason # ""
              /\ ReadyEvents(lastOp'[s]) = {}
              /\ Len(lastOp'[s].events) = 1
              /\ currentState'[s] = currentState[s]
              /\ transactionExecuted'[s] = transactionExecuted[s]
              /\ readyCount'[s] = readyCount[s]]_vars

\* an executeTransaction rejected on a session with some conditions
\* already confirmed
C31_Witness ==
    \E s \in OneSocket :
        /\ requested[s] = "executeTransaction"
        /\ IsExec(lastOp[s])
        /\ lastOp[s].outcome = "rejected"
        /\ currentState[s].personIdentified
        /\ currentState[s].verbalAgreement
        /\ ~transactionExecuted[s]

\* C32: updateStatus is narration only: a handled updateStatus call changes
\* no field of the session's currentState, not transactionExecuted, not the
\* adapter's state of the session and not the count of releases; it emits
\* exactly one status:update event and answers with an acknowledgement.
C32_StatusChangesNothing ==
    [][\A s \in OneSocket :
          CallStep(s, "updateStatus") =>
              /\ currentState'[s] = currentState[s]
              /\ transactionExecuted'[s] = transactionExecuted[s]
              /\ liveState'[s] = liveState[s]
              /\ readyCount'[s] = readyCount[s]
              /\ lastOp'[s].outcome = "acknowledged"
              /\ Len(lastOp'[s].events) = 1
              /\ lastOp'[s].events[1].type = "status:update"]_vars

C32_Witness ==
    \E s \in OneSocket :
        /\ requested[s] = "updateStatus"
        /\ lastOp[s].op = "updateStatus"
        /\ currentState[s].personIdentified
        /\ currentState[s].verbalAgreement
        /\ currentState[s].handshakeActive
        /\ ~transactionExecuted[s]

\* ------------------------------------------------------------------------
\* Two sessions side by side (SpecPair)
\* ------------------------------------------------------------------------
\* the step is an operation of session s
Acting(s) ==
    \/ applied'[s] # applied[s]
    \/ forwardedVideo'[s] # forwardedVideo[s]
    \/ forwardedAudio'[s] # forwardedAudio[s]

\* C33: sessions share no mutable state: an operation of one session
\* (function call, start, stop, media forwarding, disconnect, connection
\* drop) leaves every other session's currentState, transactionExecuted,
\* throttle timestamp and Model Peer connection as they were.
C33_SessionsShareNothing ==
    [][\A s \in Sockets, t \in Sockets :
          (s # t /\ Acting(s)) =>
              /\ currentState'[t] = currentState[t]
              /\ transactionExecuted'[t] = transactionExecuted[t]
              /\ lastVideoTime'[t] = lastVideoTime[t]
              /\ liveActive'[t] = liveActive[t]
              /\ openConns'[t] = openConns[t]
              /\ geminiSession'[t] = geminiSession[t]
              /\ liveState'[t] = liveState[t]]_vars

C33_Witness ==
    /\ transactionExecuted["s2"]
    /\ applied["s2"] # << >>
    /\ ~transactionExecuted["s1"]
    /\ currentState["s1"].readyForTransaction
    /\ liveActive["s1"]

\* C34: a new connection starts a fresh session (no condition confirmed, no
\* person, no amount, transactionExecuted false, no adapter session),
\* whatever the sessions of earlier connections hold; and a disconnect takes
\* the session out of the controller's registry with its conditions reset
\* and its adapter handle dropped.
C34_ConnectionStartsFresh ==
    [][\A s \in Sockets :
          /\ (socketState[s] = "none" /\ socketState'[s] = "connected") =>
                /\ currentState'[s] = InitialCurrentState
                /\ ~transactionExecuted'[s]
                /\ ~geminiSession'[s]
                /\ liveState'[s] = InitialLiveState
          /\ (socketState[s] = "connected" /\ socketState'[s] # "connected") =>
                /\ socketState'[s] = "disconnected"
                /\ currentState'[s] = InitialCurrentState
                /\ ~geminiSession'[s]]_vars

C34_Witness ==
    \E s \in Sockets, t \in Sockets :
        /\ socketState[t] = "disconnected"
        /\ transactionExecuted[t]
        /\ socketState[s] = "connected"
        /\ applied[s] = <<"connection">>
        /\ lastOp[s].op = "connection"

\* the records of the session's enrolled snapshot, as personData holds them
EnrolledRecords(s) ==
    {<<enrolledPeople[s][i]>> : i \in 1..Len(enrolledPeople[s])}

\* C35: the recipient carried by an emitted transaction:ready is the
\* session's personData, which is never null at that point and is a record
\* of the session's enrolled snapshot; and no function call other than
\* identifyPerson changes personData, which goes to the person that call
\* announces in person:identified (or to null when it announces
\* person:unknown), so the recipient is the person most recently identified
\* in the session.
C35_RecipientIsIdentifiedPerson ==
    [][\A s \in OneSocket :
          /\ (CallStep(s, "executeTransaction")
                 /\ lastOp'[s].outcome = "accepted") =>
                \A e \in ReadyEvents(lastOp'[s]) :
                    /\ lastOp'[s].events[e].recipient # NoPerson
                    /\ lastOp'[s].events[e].recipient \in EnrolledRecords(s)
                    /\ lastOp'[s].events[e].recipient
                           = currentState[s].personData
          /\ currentState'[s].personData # currentState[s].personData =>
                /\ lastOp'[s].op = "identifyPerson"
                /\ IF currentState'[s].personData = NoPerson
                   THEN PersonEvents(lastOp'[s], "person:unknown") # {}
                   ELSE \E e \in PersonEvents(lastOp'[s], "person:identified") :
                           lastOp'[s].events[e].recipient
                               = currentState'[s].personData]_vars

\* a release to Bob, the second person of the enrolled snapshot
C35_Witness ==
    \E s \in OneSocket :
        /\ Len(applied[s]) = MaxApplied
        /\ applied[s][1] = "identifyPerson"
        /\ lastOp[s].op = "executeTransaction"
        /\ lastOp[s].outcome = "accepted"
        /\ \E e \in ReadyEvents(lastOp[s]) : lastOp[s].events[e].recipient = <<Bob>>

\* C36: the amount carried by an emitted transaction:ready is the amount the
\* session recorded at its most recent confirmVerbalAgreement (held in
\* currentState.amount, and agreed at that point since the call is accepted).
C36_FiresForAgreedAmount ==
    [][\A s \in OneSocket :
          (CallStep(s, "executeTransaction")
              /\ lastOp'[s].outcome = "accepted") =>
              \A e \in ReadyEvents(lastOp'[s]) :
                  lastOp'[s].events[e].amount = currentState[s].amount]_vars

\* =====================================================================
\* Throttle of the video frames (SpecThrottle)
\* =====================================================================
\* when the last video frame of the session was handed to the Model Peer
LastForwardedAt(s) ==
    IF forwardedVideo[s] = << >> THEN 0
    ELSE forwardedVideo[s][Len(forwardedVideo[s])].at

\* a stream:video frame of session s arrives now and is handed on
FrameForwarded(s) ==
    /\ streamVideo(s)
    /\ Len(forwardedVideo'[s]) = Len(forwardedVideo[s]) + 1

C38_AdapterStateAgrees ==
    \A s \in OneSocket :
        requested[s] # "" =>
            \A f \in {"personIdentified", "verbalAgreement",
                      "handshakeActive", "readyForTransaction"} :
                liveState[s][f] = currentState[s][f]

====
